---- MODULE Spec2Model ----
(***************************************************************************)
(* MLogger (src/src/logger.rs): a bounded, most-recent-first pool of log   *)
(* entries behind std::sync::Mutex, with a second Mutex around the u32 id  *)
(* counter.  Threads call log and the read operations concurrently; every  *)
(* lock acquisition, the echo, the push, the eviction, the increment and   *)
(* the release of the guards are separate steps (Spec, FairSpec).  What    *)
(* the operations compute is also examined on whole calls made one after   *)
(* the other, with entries of all five levels (CallerSpec, PrinterSpec,    *)
(* RereadSpec).                                                            *)
(***************************************************************************)
EXTENDS Integers, Sequences, FiniteSets, TLC

\* ------------------------------------------------------------------ bounds
NumThreads == 2
MaxLogs == 4
MaxCap == 3
MaxPrints == 1
WrapMargin == 2

\* ------------------------------------------------------- program constants
\* counter: Arc<Mutex<u32>>
U32Bits == 32

\* ---------------------------------------------------------------- u32, Nat
\* TLC's integers stop at 2^31 - 1, so a u32 (and an unbounded count of
\* appends) is kept as <<hi, lo>> with value hi * 2^16 + lo.
LimbBase == 2 ^ (U32Bits \div 2)

NatAdd(n, k) == <<n[1] + ((n[2] + k) \div LimbBase), (n[2] + k) % LimbBase>>

\* n - k for a small k <= n
NatSub(n, k) == IF n[2] >= k THEN <<n[1], n[2] - k>> ELSE <<n[1] - 1, n[2] + LimbBase - k>>

NatLess(a, b) == a[1] < b[1] \/ (a[1] = b[1] /\ a[2] < b[2])

U32Zero == <<0, 0>>

U32Max == <<LimbBase - 1, LimbBase - 1>>

\* the value of a Nat as a u32 (mod 2^32)
U32OfNat(n) == <<n[1] % LimbBase, n[2]>>

\* wrapping_add(c, 1): what `*counter += 1` stores without overflow checks
U32WrappingInc(c) == U32OfNat(NatAdd(c, 1))

\* ---------------------------------------------------------------- Verbosity
\* #[derive(PartialOrd, Ord)]: the order is the order of declaration
Verbosity == <<"Silent", "Error", "Warn", "Info", "Debug">>

Rank(v) == CHOOSE i \in DOMAIN Verbosity : Verbosity[i] = v

VLeq(a, b) == Rank(a) <= Rank(b)

\* ------------------------------------------------------------ input domains
Threads == 1..NumThreads

Thresholds == {"Warn", "Debug"}

LogLevels == {"Error", "Info"}

Messages == {"m"}

\* the level of the entries a long-lived pool holds in the first state
PrefillLevels == {"Error"}

Filters == {"Silent", "Warn", "Debug"}

Indices == 0..MaxCap

Caps == 0..MaxCap

ReadOps == {"get_entry", "get_size", "get_log", "get_entries", "print_log", "print_log_level"}

PrintOps == {"print_log", "print_log_level"}

\* ------------------------------------------------------------------- state
VARIABLES
  verbosity,        \* MLogger.verbosity
  max_size,         \* MLogger.max_size
  pool,             \* the VecDeque behind MLogger.pool, front first
  counter,          \* the u32 behind MLogger.counter
  poolHeld,         \* threads holding a guard of the pool mutex
  counterHeld,      \* threads holding a guard of the counter mutex
  poolPoisoned,     \* poison flag of the pool mutex
  counterPoisoned,  \* poison flag of the counter mutex
  pc,               \* each thread's position
  op,               \* each thread's current operation
  log_entry,        \* log's local log_entry, between its construction and the push
  console,          \* the lines written to stdout since the first state
  ret,              \* the call that ended in the last step, if any
  base,             \* appends completed before the first state (a Nat)
  pool0,            \* the pool in the first state
  history,          \* the entries pushed since the first state, oldest first
  oks,              \* log calls that returned Ok since the first state
  nLogs,            \* log calls started
  nPrints,          \* print calls started
  seen_log          \* a get_log the caller has kept the value of, if any

vars == <<verbosity, max_size, pool, counter, poolHeld, counterHeld, poolPoisoned,
          counterPoisoned, pc, op, log_entry, console, ret, base,
          pool0, history, oks, nLogs, nPrints, seen_log>>

\* what no step of a thread changes
config == <<verbosity, max_size, base, pool0, seen_log>>

NoRet == [op |-> "none"]

NoEntry == <<>>

\* ----------------------------------------------------------- the collection
PushFront(q, e) == <<e>> \o q

\* pops the wrong end: the most recent entry
PopFront(q) == Tail(q)

PopBack(q) == SubSeq(q, 1, Len(q) - 1)

\* evicts one entry too late
EvictOffByOne(q) == IF Len(q) > max_size + 1 THEN PopBack(q) ELSE q

\* if pool.len() > self.max_size { pool.pop_back(); }
Evict(q) == IF Len(q) > max_size THEN PopBack(q) ELSE q

\* ------------------------------------------------------------------- locks
\* a lock that excludes nobody
LockNeverBlocks(held) == TRUE

\* Mutex::lock blocks while another guard exists
LockFree(held) == held = {}

\* a lock() whose poison error is dropped (unwrap_or_else(into_inner))
LockIgnoresPoison(poisoned) == "Ok"

\* lock() is Err(PoisonError) on a poisoned mutex; map_err(..)? returns it
LockResult(poisoned) == IF poisoned THEN "Err" ELSE "Ok"

\* a second call site that locks the counter first
LogFirstLockByThread(t) == IF t = 1 THEN "pool" ELSE "counter"

\* log locks the pool first, then the counter
LogFirstLock(t) == "pool"

LogLockPc(which) == IF which = "pool" THEN "log_lock_pool" ELSE "log_lock_counter"

\* ----------------------------------------------------------- pure functions
\* a filter with < in the place of <=
LevelFilterBelow(q, filter) == SelectSeq(q, LAMBDA e : Rank(e[3]) < Rank(filter))

\* filter(|log| log.2 <= filter)
LevelFilter(q, filter) == SelectSeq(q, LAMBDA e : VLeq(e[3], filter))

\* a get_log that keeps the entries of exactly the level given
get_log_exact(q, filter) == SelectSeq(q, LAMBDA e : e[3] = filter)

\* pool.iter().filter(|log| log.2 <= filter).cloned().collect()
get_log(q, filter) == LevelFilter(q, filter)

\* VecDeque::range panics if start > end or end > len
RangePanics(q, start_index, end_index) == start_index > end_index \/ end_index > Len(q)

\* a get_entries whose range starts at the front whatever start_index is
get_entries_from_front(q, start_index, end_index, filter) ==
  LevelFilter(SubSeq(q, 1, end_index), filter)

\* pool.range(start_index..end_index).filter(|log| log.2 <= filter)
get_entries(q, start_index, end_index, filter) ==
  LevelFilter(SubSeq(q, start_index + 1, end_index), filter)

\* a get_entry that counts positions from the oldest entry
get_entry_from_back(q, index) ==
  IF index < Len(q) THEN [kind |-> "Ok", val |-> q[Len(q) - index]]
  ELSE [kind |-> "Err", val |-> "index out of bounds"]

\* pool.get(index).cloned().ok_or_else(..)
get_entry(q, index) ==
  IF index < Len(q) THEN [kind |-> "Ok", val |-> q[index + 1]]
  ELSE [kind |-> "Err", val |-> "index out of bounds"]

\* println!("id:{} {} {}", entry.0, entry.2, entry.1) for each entry
PrintLogLines(q) ==
  [i \in 1..Len(q) |-> [fmt |-> "id:", id |-> q[i][1], level |-> q[i][3], msg |-> q[i][2]]]

\* a print_log_level that filters as get_log does
PrintLogLevelLinesUpTo(q, predicator) ==
  LET sel == LevelFilter(q, predicator)
  IN [i \in 1..Len(sel) |-> [fmt |-> "plain", id |-> sel[i][1], level |-> sel[i][3], msg |-> sel[i][2]]]

\* filter(|log| log.2 == predicator), then println!("{} {} {}", ...)
PrintLogLevelLines(q, predicator) ==
  LET sel == SelectSeq(q, LAMBDA e : e[3] = predicator)
  IN [i \in 1..Len(sel) |-> [fmt |-> "plain", id |-> sel[i][1], level |-> sel[i][3], msg |-> sel[i][2]]]

\* an echo that ignores the threshold
EchoAlways(out, e) == Append(out, [fmt |-> "echo", msg |-> e[2], id |-> e[1]])

\* if log_entry.2 <= self.verbosity { println!("{}", log_entry.1.clone()); }
\* The line shows the message alone; `id` records whose echo the line is.
Echo(out, e) ==
  IF VLeq(e[3], verbosity) THEN Append(out, [fmt |-> "echo", msg |-> e[2], id |-> e[1]]) ELSE out

\* ------------------------------------------------------------------- Init
\* The pool of a logger on which `base` log calls have returned Ok one after
\* the other: base = 0 is the logger as init returns it; the other start is a
\* logger WrapMargin appends away from exhausting the u32 counter.
StartCounts == {U32Zero, <<LimbBase - 1, LimbBase - WrapMargin>>}

\* the entries that min(cap, all) appends of (msg, level) with ids up to n - 1 leave
Prefill(n, cap, msg, level) ==
  LET k == IF n[1] = 0 /\ n[2] < cap THEN n[2] ELSE cap
  IN [i \in 1..k |-> <<NatSub(n, i), msg, level>>]

Init ==
  /\ verbosity \in Thresholds
  /\ max_size \in Caps
  /\ base \in StartCounts
  /\ counter = base
  /\ \E m \in Messages, l \in PrefillLevels : pool = Prefill(base, max_size, m, l)
  /\ pool0 = pool
  /\ poolHeld = {}
  /\ counterHeld = {}
  /\ poolPoisoned = FALSE
  /\ counterPoisoned = FALSE
  /\ pc = [t \in Threads |-> "idle"]
  /\ op = [t \in Threads |-> "none"]
  /\ log_entry = [t \in Threads |-> NoEntry]
  /\ console = <<>>
  /\ ret = NoRet
  /\ history = <<>>
  /\ oks = 0
  /\ nLogs = 0
  /\ nPrints = 0
  /\ seen_log = NoRet

\* ------------------------------------------------------------------ calls
CallLog(t) ==
  /\ pc[t] = "idle"
  /\ nLogs < MaxLogs
  /\ pc' = [pc EXCEPT ![t] = LogLockPc(LogFirstLock(t))]
  /\ op' = [op EXCEPT ![t] = "log"]
  /\ nLogs' = nLogs + 1
  /\ ret' = NoRet
  /\ UNCHANGED <<config, pool, counter, poolHeld, counterHeld, poolPoisoned,
                 counterPoisoned, log_entry, console, history, oks, nPrints>>

CallRead(t) ==
  /\ pc[t] = "idle"
  /\ \E o \in ReadOps :
       /\ o \in PrintOps => nPrints < MaxPrints
       /\ op' = [op EXCEPT ![t] = o]
       /\ nPrints' = IF o \in PrintOps THEN nPrints + 1 ELSE nPrints
  /\ pc' = [pc EXCEPT ![t] = "rd_lock"]
  /\ ret' = NoRet
  /\ UNCHANGED <<config, pool, counter, poolHeld, counterHeld, poolPoisoned,
                 counterPoisoned, log_entry, console, history, oks, nLogs>>

\* -------------------------------------------------------------------- log
\* the guards log holds are dropped when it returns or unwinds
Release(held, t) == held \ {t}

\* self.pool.lock().map_err(|_| "pool lock failed!".to_string())?
LogLockPool(t) ==
  /\ pc[t] = "log_lock_pool"
  /\ LockFree(poolHeld)
  /\ IF LockResult(poolPoisoned) = "Err"
       THEN /\ pc' = [pc EXCEPT ![t] = "idle"]
            /\ op' = [op EXCEPT ![t] = "none"]
            /\ ret' = [op |-> "log", kind |-> "Err", val |-> "pool lock failed!"]
            /\ counterHeld' = Release(counterHeld, t)
            /\ UNCHANGED poolHeld
       ELSE /\ poolHeld' = poolHeld \cup {t}
            /\ pc' = [pc EXCEPT ![t] = IF t \in counterHeld THEN "log_echo" ELSE "log_lock_counter"]
            /\ ret' = NoRet
            /\ UNCHANGED <<op, counterHeld>>
  /\ UNCHANGED <<config, pool, counter, poolPoisoned, counterPoisoned, log_entry,
                 console, history, oks, nLogs, nPrints>>

\* self.counter.lock().map_err(|_| "counter lock failed!".to_string())?
LogLockCounter(t) ==
  /\ pc[t] = "log_lock_counter"
  /\ LockFree(counterHeld)
  /\ IF LockResult(counterPoisoned) = "Err"
       THEN /\ pc' = [pc EXCEPT ![t] = "idle"]
            /\ op' = [op EXCEPT ![t] = "none"]
            /\ ret' = [op |-> "log", kind |-> "Err", val |-> "counter lock failed!"]
            /\ poolHeld' = Release(poolHeld, t)
            /\ UNCHANGED counterHeld
       ELSE /\ counterHeld' = counterHeld \cup {t}
            /\ pc' = [pc EXCEPT ![t] = IF t \in poolHeld THEN "log_echo" ELSE "log_lock_pool"]
            /\ ret' = NoRet
            /\ UNCHANGED <<op, poolHeld>>
  /\ UNCHANGED <<config, pool, counter, poolPoisoned, counterPoisoned, log_entry,
                 console, history, oks, nLogs, nPrints>>

\* let log_entry = (*counter, log.to_string(), verbosity); and the echo
LogEcho(t) ==
  /\ pc[t] = "log_echo"
  /\ \E m \in Messages, l \in LogLevels :
       /\ log_entry' = [log_entry EXCEPT ![t] = <<counter, m, l>>]
       /\ console' = Echo(console, <<counter, m, l>>)
  /\ pc' = [pc EXCEPT ![t] = "log_push"]
  /\ ret' = NoRet
  /\ UNCHANGED <<config, pool, counter, poolHeld, counterHeld, poolPoisoned,
                 counterPoisoned, op, history, oks, nLogs, nPrints>>

\* pool.push_front(log_entry)
LogPush(t) ==
  /\ pc[t] = "log_push"
  /\ pool' = PushFront(pool, log_entry[t])
  /\ history' = Append(history, log_entry[t])
  /\ log_entry' = [log_entry EXCEPT ![t] = NoEntry]
  /\ pc' = [pc EXCEPT ![t] = "log_evict"]
  /\ ret' = NoRet
  /\ UNCHANGED <<config, counter, poolHeld, counterHeld, poolPoisoned, counterPoisoned,
                 op, console, oks, nLogs, nPrints>>

\* if pool.len() > self.max_size { pool.pop_back(); }
LogEvict(t) ==
  /\ pc[t] = "log_evict"
  /\ pool' = Evict(pool)
  /\ pc' = [pc EXCEPT ![t] = "log_incr"]
  /\ ret' = NoRet
  /\ UNCHANGED <<config, counter, poolHeld, counterHeld, poolPoisoned, counterPoisoned,
                 op, log_entry, console, history, oks, nLogs, nPrints>>

\* *counter += 1.  At u32::MAX the outcome is the build's: with overflow
\* checks (the dev profile) the addition panics, and the unwinding drops both
\* guards, which poisons both mutexes; without them (the release profile) it
\* wraps to 0.
LogIncr(t) ==
  /\ pc[t] = "log_incr"
  /\ \/ /\ counter = U32Max
        /\ pc' = [pc EXCEPT ![t] = "panicked"]
        /\ op' = [op EXCEPT ![t] = "none"]
        /\ ret' = [op |-> "log", kind |-> "Panic", val |-> "attempt to add with overflow"]
        /\ poolPoisoned' = (poolPoisoned \/ t \in poolHeld)
        /\ counterPoisoned' = (counterPoisoned \/ t \in counterHeld)
        /\ poolHeld' = Release(poolHeld, t)
        /\ counterHeld' = Release(counterHeld, t)
        /\ UNCHANGED counter
     \/ /\ counter' = U32WrappingInc(counter)
        /\ pc' = [pc EXCEPT ![t] = "log_ret"]
        /\ ret' = NoRet
        /\ UNCHANGED <<op, poolPoisoned, counterPoisoned, poolHeld, counterHeld>>
  /\ UNCHANGED <<config, pool, log_entry, console, history, oks, nLogs, nPrints>>

\* Ok(()): the counter guard and the pool guard are dropped
LogRet(t) ==
  /\ pc[t] = "log_ret"
  /\ poolHeld' = Release(poolHeld, t)
  /\ counterHeld' = Release(counterHeld, t)
  /\ pc' = [pc EXCEPT ![t] = "idle"]
  /\ op' = [op EXCEPT ![t] = "none"]
  /\ oks' = oks + 1
  /\ ret' = [op |-> "log", kind |-> "Ok", val |-> <<>>]
  /\ UNCHANGED <<config, pool, counter, poolPoisoned, counterPoisoned, log_entry,
                 console, history, nLogs, nPrints>>

\* ------------------------------------------------------------------ reads
\* what a read returns when its lock() fails: "pool lock failed", with a
\* "!" in print_log and print_log_level
ReadLockFailed(o) ==
  [op |-> o, kind |-> "Err",
   val |-> IF o \in PrintOps THEN "pool lock failed!" ELSE "pool lock failed"]

\* self.pool.lock().map_err(|_| "pool lock failed".to_string())? of a read
RdLock(t) ==
  /\ pc[t] = "rd_lock"
  /\ LockFree(poolHeld)
  /\ IF LockResult(poolPoisoned) = "Err"
       THEN /\ pc' = [pc EXCEPT ![t] = "idle"]
            /\ op' = [op EXCEPT ![t] = "none"]
            /\ ret' = ReadLockFailed(op[t])
            /\ UNCHANGED poolHeld
       ELSE /\ poolHeld' = poolHeld \cup {t}
            /\ pc' = [pc EXCEPT ![t] = "rd_body"]
            /\ ret' = NoRet
            /\ UNCHANGED op
  /\ UNCHANGED <<config, pool, counter, counterHeld, poolPoisoned, counterPoisoned,
                 log_entry, console, history, oks, nLogs, nPrints>>

\* a read returns r and drops its guard
Return(t, r) ==
  /\ ret' = r
  /\ pc' = [pc EXCEPT ![t] = "idle"]
  /\ op' = [op EXCEPT ![t] = "none"]
  /\ poolHeld' = Release(poolHeld, t)
  /\ UNCHANGED <<config, pool, counter, counterHeld, counterPoisoned, log_entry,
                 history, oks, nLogs, nPrints>>

GetEntry(t) ==
  /\ pc[t] = "rd_body" /\ op[t] = "get_entry"
  /\ \E index \in Indices :
       Return(t, [op |-> "get_entry", args |-> <<index>>,
                  kind |-> get_entry(pool, index).kind, val |-> get_entry(pool, index).val])
  /\ UNCHANGED <<poolPoisoned, console>>

GetSize(t) ==
  /\ pc[t] = "rd_body" /\ op[t] = "get_size"
  /\ Return(t, [op |-> "get_size", args |-> <<>>, kind |-> "Ok", val |-> Len(pool)])
  /\ UNCHANGED <<poolPoisoned, console>>

GetLog(t) ==
  /\ pc[t] = "rd_body" /\ op[t] = "get_log"
  /\ \E filter \in Filters :
       Return(t, [op |-> "get_log", args |-> <<filter>>,
                  kind |-> "Ok", val |-> get_log(pool, filter)])
  /\ UNCHANGED <<poolPoisoned, console>>

\* pool.range(..) panics on a bad range while the pool guard is alive: the
\* unwinding drops the guard and poisons the pool mutex
GetEntries(t) ==
  /\ pc[t] = "rd_body" /\ op[t] = "get_entries"
  /\ \E start_index \in Indices, end_index \in Indices, filter \in Filters :
       IF RangePanics(pool, start_index, end_index)
         THEN /\ ret' = [op |-> "get_entries",
                         args |-> <<start_index, end_index, filter>>,
                         kind |-> "Panic", val |-> "range out of bounds"]
              /\ pc' = [pc EXCEPT ![t] = "panicked"]
              /\ op' = [op EXCEPT ![t] = "none"]
              /\ poolHeld' = Release(poolHeld, t)
              /\ poolPoisoned' = (poolPoisoned \/ t \in poolHeld)
              /\ UNCHANGED <<config, pool, counter, counterHeld, counterPoisoned,
                             log_entry, history, oks, nLogs, nPrints>>
         ELSE /\ Return(t, [op |-> "get_entries",
                            args |-> <<start_index, end_index, filter>>, kind |-> "Ok",
                            val |-> get_entries(pool, start_index, end_index, filter)])
              /\ UNCHANGED poolPoisoned
  /\ UNCHANGED console

PrintLog(t) ==
  /\ pc[t] = "rd_body" /\ op[t] = "print_log"
  /\ console' = console \o PrintLogLines(pool)
  /\ Return(t, [op |-> "print_log", args |-> <<>>, kind |-> "Ok", val |-> <<>>])
  /\ UNCHANGED poolPoisoned

PrintLogLevel(t) ==
  /\ pc[t] = "rd_body" /\ op[t] = "print_log_level"
  /\ \E predicator \in Filters :
       /\ console' = console \o PrintLogLevelLines(pool, predicator)
       /\ Return(t, [op |-> "print_log_level", args |-> <<predicator>>,
                     kind |-> "Ok", val |-> <<>>])
  /\ UNCHANGED poolPoisoned

\* ------------------------------------------------------------------- Next
Call(t) == CallLog(t) \/ CallRead(t)

LogStep(t) ==
  \/ LogLockPool(t)
  \/ LogLockCounter(t)
  \/ LogEcho(t)
  \/ LogPush(t)
  \/ LogEvict(t)
  \/ LogIncr(t)
  \/ LogRet(t)

ReadStep(t) ==
  \/ RdLock(t)
  \/ GetEntry(t)
  \/ GetSize(t)
  \/ GetLog(t)
  \/ GetEntries(t)
  \/ PrintLog(t)
  \/ PrintLogLevel(t)

\* a step of a call that has started
Proceed(t) == LogStep(t) \/ ReadStep(t)

Next == \E t \in Threads : Call(t) \/ Proceed(t)

Spec == Init /\ [][Next]_vars

\* Liveness is examined on the long-lived loggers of one threshold and one
\* capacity, with the same threads and operations.
FairInit == Init /\ verbosity = "Warn" /\ max_size = 1 /\ base # U32Zero

\* the scheduler lets every thread inside a call take its next step, and a
\* thread waiting for a mutex gets it if it is free again and again
FairSpec == FairInit /\ [][Next]_vars /\ \A t \in Threads : SF_vars(Proceed(t))

\* ------------------------------------------------- one caller, whole calls
\* The same operations called one after the other on a logger as init or
\* init_default returns it: each action is a whole call, from its lock() to
\* its return, and an entry may carry any Verbosity, Silent included.  The
\* caller is done with the value of one call before it makes the next (the
\* statements of the tests in src/src/lib.rs); after a call that panicked,
\* the calls that follow are those of another thread.
AllLevels == {Verbosity[i] : i \in DOMAIN Verbosity}

\* max_size: 1000 of init_default
DefaultMaxSize == 1000

threadState == <<poolHeld, counterHeld, pc, op, log_entry>>

CallerInit ==
  /\ \/ verbosity = "Debug" /\ max_size = DefaultMaxSize
     \/ verbosity \in Thresholds /\ max_size \in Caps
  /\ base = U32Zero
  /\ counter = U32Zero
  /\ pool = <<>>
  /\ pool0 = <<>>
  /\ poolHeld = {}
  /\ counterHeld = {}
  /\ poolPoisoned = FALSE
  /\ counterPoisoned = FALSE
  /\ pc = [t \in Threads |-> "idle"]
  /\ op = [t \in Threads |-> "none"]
  /\ log_entry = [t \in Threads |-> NoEntry]
  /\ console = <<>>
  /\ ret = NoRet
  /\ history = <<>>
  /\ oks = 0
  /\ nLogs = 0
  /\ nPrints = 0
  /\ seen_log = NoRet

\* log, from the two lock() calls to Ok(()) (or to the panic of the increment)
CallerLog ==
  /\ ret = NoRet
  /\ nLogs < MaxLogs
  /\ nLogs' = nLogs + 1
  /\ IF LockResult(poolPoisoned) = "Err"
       THEN /\ ret' = [op |-> "log", kind |-> "Err", val |-> "pool lock failed!"]
            /\ UNCHANGED <<pool, counter, console, history, oks, poolPoisoned,
                           counterPoisoned, seen_log>>
       ELSE IF LockResult(counterPoisoned) = "Err"
       THEN /\ ret' = [op |-> "log", kind |-> "Err", val |-> "counter lock failed!"]
            /\ UNCHANGED <<pool, counter, console, history, oks, poolPoisoned,
                           counterPoisoned, seen_log>>
       ELSE \E m \in Messages, l \in AllLevels :
              /\ seen_log' = NoRet
              /\ console' = Echo(console, <<counter, m, l>>)
              /\ pool' = Evict(PushFront(pool, <<counter, m, l>>))
              /\ history' = Append(history, <<counter, m, l>>)
              /\ \/ /\ counter = U32Max
                    /\ ret' = [op |-> "log", kind |-> "Panic",
                               val |-> "attempt to add with overflow"]
                    /\ poolPoisoned' = TRUE
                    /\ counterPoisoned' = TRUE
                    /\ UNCHANGED <<counter, oks>>
                 \/ /\ counter' = U32WrappingInc(counter)
                    /\ oks' = oks + 1
                    /\ ret' = [op |-> "log", kind |-> "Ok", val |-> <<>>]
                    /\ UNCHANGED <<poolPoisoned, counterPoisoned>>
  /\ UNCHANGED <<verbosity, max_size, base, pool0, threadState, nPrints>>

\* a read that leaves pool, poison flags and console alone returns r
CallerReturn(r) ==
  /\ ret = NoRet
  /\ ret' = r
  /\ UNCHANGED <<config, threadState, pool, counter, poolPoisoned, counterPoisoned,
                 console, history, oks, nLogs, nPrints>>

CallerGetEntry ==
  \E index \in Indices :
    CallerReturn(IF LockResult(poolPoisoned) = "Err" THEN ReadLockFailed("get_entry")
                 ELSE [op |-> "get_entry", args |-> <<index>>,
                       kind |-> get_entry(pool, index).kind,
                       val |-> get_entry(pool, index).val])

CallerGetSize ==
  CallerReturn(IF LockResult(poolPoisoned) = "Err" THEN ReadLockFailed("get_size")
               ELSE [op |-> "get_size", args |-> <<>>, kind |-> "Ok", val |-> Len(pool)])

CallerGetLog ==
  \E filter \in AllLevels :
    CallerReturn(IF LockResult(poolPoisoned) = "Err" THEN ReadLockFailed("get_log")
                 ELSE [op |-> "get_log", args |-> <<filter>>, kind |-> "Ok",
                       val |-> get_log(pool, filter)])

CallerGetEntries ==
  \E start_index \in Indices, end_index \in Indices, filter \in Filters :
    IF LockResult(poolPoisoned) = "Err"
      THEN CallerReturn(ReadLockFailed("get_entries"))
    ELSE IF RangePanics(pool, start_index, end_index)
      THEN /\ ret = NoRet
           /\ ret' = [op |-> "get_entries", args |-> <<start_index, end_index, filter>>,
                      kind |-> "Panic", val |-> "range out of bounds"]
           /\ poolPoisoned' = TRUE
           /\ UNCHANGED <<config, threadState, pool, counter, counterPoisoned, console,
                          history, oks, nLogs, nPrints>>
    ELSE CallerReturn([op |-> "get_entries", args |-> <<start_index, end_index, filter>>,
                       kind |-> "Ok",
                       val |-> get_entries(pool, start_index, end_index, filter)])

\* a print call writes `lines` and returns Ok(())
CallerPrint(o, args, lines) ==
  /\ ret = NoRet
  /\ nPrints < MaxPrints
  /\ nPrints' = nPrints + 1
  /\ IF LockResult(poolPoisoned) = "Err"
       THEN ret' = ReadLockFailed(o) /\ UNCHANGED console
       ELSE /\ ret' = [op |-> o, args |-> args, kind |-> "Ok", val |-> <<>>]
            /\ console' = console \o lines
  /\ UNCHANGED <<config, threadState, pool, counter, poolPoisoned, counterPoisoned,
                 history, oks, nLogs>>

CallerPrintLog == CallerPrint("print_log", <<>>, PrintLogLines(pool))

CallerPrintLogLevel ==
  \E predicator \in AllLevels :
    CallerPrint("print_log_level", <<predicator>>, PrintLogLevelLines(pool, predicator))

\* the statement that made the call ends: its value is used and dropped
CallerDone ==
  /\ ret # NoRet
  /\ ret' = NoRet
  /\ UNCHANGED <<config, threadState, pool, counter, poolPoisoned, counterPoisoned,
                 console, history, oks, nLogs, nPrints>>

\* log and the reads that return entries
CallerNext ==
  \/ CallerDone
  \/ CallerLog
  \/ CallerGetEntry
  \/ CallerGetSize
  \/ CallerGetLog
  \/ CallerGetEntries

CallerSpec == CallerInit /\ [][CallerNext]_vars

\* get_log by a caller that may keep the value to compare it with what a
\* later get_log returns; the next push makes the caller forget it
RereadGetLog ==
  \E filter \in AllLevels, keep \in BOOLEAN :
    /\ ret = NoRet
    /\ ret' = (IF LockResult(poolPoisoned) = "Err" THEN ReadLockFailed("get_log")
               ELSE [op |-> "get_log", args |-> <<filter>>, kind |-> "Ok",
                     val |-> get_log(pool, filter)])
    /\ seen_log' = (IF keep /\ LockResult(poolPoisoned) = "Ok" THEN ret' ELSE seen_log)
    /\ UNCHANGED <<verbosity, max_size, base, pool0, threadState, pool, counter,
                   poolPoisoned, counterPoisoned, console, history, oks, nLogs, nPrints>>

\* the logger of init_default
RereadInit == CallerInit /\ max_size = DefaultMaxSize

\* log, get_log and the reads that may come between two get_log calls
RereadNext ==
  \/ CallerDone
  \/ CallerLog
  \/ RereadGetLog
  \/ CallerGetEntry
  \/ CallerGetSize
  \/ CallerGetEntries

RereadSpec == RereadInit /\ [][RereadNext]_vars

\* log and the reads that write to the console
PrinterNext ==
  \/ CallerDone
  \/ CallerLog
  \/ CallerPrintLog
  \/ CallerPrintLogLevel

PrinterSpec == CallerInit /\ [][PrinterNext]_vars

\* ================================================================= claims
\* what the claims speak of
Reverse(s) == [i \in 1..Len(s) |-> s[Len(s) + 1 - i]]

Take(s, n) == SubSeq(s, 1, IF n < Len(s) THEN n ELSE Len(s))

Ids(s) == [i \in 1..Len(s) |-> s[i][1]]

\* everything appended that a pool of unlimited capacity would still hold
\* from the first state on, most recent first
AllRecent == Reverse(history) \o pool0

\* the pool that the pushes so far leave when they run one after the other
SeqPool == Take(AllRecent, max_size)

\* the counter that the pushes so far leave when they run one after the other
SeqCounter == U32OfNat(NatAdd(base, Len(history)))

LogCritical == {"log_echo", "log_push", "log_evict", "log_incr", "log_ret"}

InLog(t) == pc[t] \in LogCritical

Started(t) == pc[t] \notin {"idle", "panicked"}

Poisoned == poolPoisoned \/ counterPoisoned

\* ---------------------------------------------------------------------- C1
\* what get_size returns and what the pool holds stay within the capacity
C1_SizeBounded ==
  /\ ret.op = "get_size" /\ ret.kind = "Ok" => ret.val <= max_size
  /\ Len(pool) <= max_size + 1
  /\ (\A t \in Threads : pc[t] # "log_evict") => Len(pool) <= max_size

\* the pool shrinks only in an eviction, by its back entry alone
C1_EvictsOldest ==
  /\ Len(pool') < Len(pool) =>
       /\ Len(pool) = max_size + 1
       /\ \E t \in Threads : pc[t] = "log_evict" /\ pc'[t] = "log_incr"
  /\ \A t \in Threads :
       pc[t] = "log_evict" /\ pc'[t] = "log_incr" /\ Len(pool) > max_size =>
         /\ Len(pool') = Len(pool) - 1
         /\ pool' = SubSeq(pool, 1, Len(pool) - 1)

\* C1: every get_size() that returns a value returns one <= max_size, the
\* pool exceeds max_size only between a push and the eviction that follows
\* it, and that eviction removes exactly one entry, the oldest (the back).
C1_CapacityBound == [](C1_SizeBounded) /\ [][C1_EvictsOldest]_vars

\* a fresh pool of capacity >= 1 has evicted and get_size returns max_size
C1_Witness ==
  /\ base = U32Zero /\ max_size >= 1 /\ Len(history) > max_size
  /\ ret.op = "get_size" /\ ret.kind = "Ok" /\ ret.val = max_size

\* ---------------------------------------------------------------------- C2
\* C2: the N-th append gets the id N - 1 (as a number, N counted from the
\* creation of the pool), and the counter is the number of appends that
\* returned Ok whenever no append is under way.
C2_IdIsOrdinal ==
  /\ \A k \in 1..Len(history) : history[k][1] = NatAdd(base, k - 1)
  /\ (\A t \in Threads : ~InLog(t)) => counter = NatAdd(base, oks)

\* ---------------------------------------------------------------------- C3
\* C3: the pushes act as if run one after the other (pool and counter are
\* those of the sequence of pushes whenever no append is under way), no id
\* is given twice, no append that returned Ok is missing, and the counter
\* is the number of appends that returned Ok.
C3_AtomicAppends ==
  /\ ((\A t \in Threads : ~InLog(t)) /\ ~Poisoned) =>
       /\ pool = SeqPool
       /\ counter = SeqCounter
       /\ oks = Len(history)
  /\ (\A t \in Threads : ~InLog(t)) => counter = NatAdd(base, oks)
  /\ oks <= Len(history)
  /\ \A i \in 1..Len(history) :
       /\ ~NatLess(history[i][1], base)
       /\ \A j \in 1..Len(history) : i # j => history[i][1] # history[j][1]

\* ---------------------------------------------------------------------- C4
\* C4: when no append is under way on a usable pool, the pool is exactly the
\* min(N, C) most recent appends, most recent first, every one of them an
\* append that returned Ok; get_log(Debug) returns that sequence and
\* get_size its length; a fresh pool of capacity 3 after 4 appends holds
\* the ids 3, 2, 1 and not 0.
C4_EvictionOrder ==
  /\ ((\A t \in Threads : ~InLog(t)) /\ ~poolPoisoned) =>
       /\ oks = Len(history)
       /\ pool = SeqPool
       /\ Len(pool) = (IF Len(AllRecent) < max_size THEN Len(AllRecent) ELSE max_size)
  /\ (ret.op = "get_log" /\ ret.kind = "Ok" /\ ret.args = <<"Debug">>) => ret.val = SeqPool
  /\ (ret.op = "get_size" /\ ret.kind = "Ok") => ret.val = Len(SeqPool)
  /\ (base = U32Zero /\ max_size = 3 /\ Len(history) = 4) =>
       /\ (ret.op = "get_size" /\ ret.kind = "Ok") => ret.val = 3
       /\ (ret.op = "get_log" /\ ret.kind = "Ok" /\ ret.args = <<"Debug">>) =>
            Ids(ret.val) = <<<<0, 3>>, <<0, 2>>, <<0, 1>>>>
       /\ (ret.op \in {"get_log", "get_entries"} /\ ret.kind = "Ok") =>
            \A i \in 1..Len(ret.val) : ret.val[i][1] # U32Zero
       /\ (ret.op = "get_entry" /\ ret.kind = "Ok") => ret.val[1] # U32Zero

\* init(Debug, 3), 4 appends, then get_log(Debug) returns 3 entries
C4_Witness ==
  /\ base = U32Zero /\ verbosity = "Debug" /\ max_size = 3 /\ Len(history) = 4
  /\ ret.op = "get_log" /\ ret.kind = "Ok" /\ ret.args = <<"Debug">> /\ Len(ret.val) = 3

\* ---------------------------------------------------------------------- C5
\* C5: get_entries with start > end or end > size returns an error, and
\* neither ends abnormally nor leaves the pool unusable.
C5_BadRangeIsReported ==
  (ret.op = "get_entries" /\ ret.kind # "Err") =>
    /\ ret.args[1] <= ret.args[2] /\ ret.args[2] <= Len(pool)
    /\ ret.kind = "Ok"
    /\ ~poolPoisoned

\* ---------------------------------------------------------------------- C6
\* C6: when a log call has ended, in whatever way, the pool has received
\* its entry exactly if the counter has advanced, and it did not succeed
\* only if a lock was found poisoned.
C6_NoPartialMutation ==
  ret.op = "log" =>
    /\ counter = SeqCounter
    /\ ret.kind \in {"Ok", "Err"}
    /\ ret.kind = "Err" => Poisoned

\* ---------------------------------------------------------------------- C7
\* C7: no id is assigned twice: the ids assigned since the first state
\* differ from each other and from the ids 0 .. base - 1 assigned before.
C7_IdsNeverReused ==
  \A i \in 1..Len(history) :
    /\ ~NatLess(history[i][1], base)
    /\ \A j \in 1..(i - 1) : history[j][1] # history[i][1]

\* ---------------------------------------------------------------------- C8
\* a step taken on a poisoned pool
C8_Step ==
  Poisoned =>
    /\ poolPoisoned => poolPoisoned'
    /\ counterPoisoned => counterPoisoned'
    /\ pool' = pool
    /\ counter' = counter
    /\ ret'.op # "none" => ret'.kind = "Err"
    /\ \A t \in Threads : ~InLog(t)'

\* C8: once a mutex of the pool is poisoned it stays poisoned, every call
\* that ends afterwards ends by returning an error, and neither the pool
\* nor the counter changes any more.
C8_PoisonIsFatal == [][C8_Step]_vars

\* on a poisoned pool a log call has just returned an error
C8_Witness == poolPoisoned /\ ret.op = "log" /\ ret.kind = "Err"

\* ---------------------------------------------------------------------- C9
\* the pool mutex is taken before the counter mutex, and only log takes both
C9_LockOrder ==
  /\ counterHeld \subseteq poolHeld
  /\ \A t \in Threads : t \in counterHeld => op[t] = "log"
  /\ \A t \in Threads : pc[t] = "log_lock_counter" => t \in poolHeld
  /\ \A t \in Threads : pc[t] = "log_lock_pool" => t \notin counterHeld

\* while a call is under way, some call can take a step
C9_NoDeadlock == (\E t \in Threads : Started(t)) => \E u \in Threads : ENABLED Proceed(u)

\* C9: the counter mutex is only ever held by a log call that holds the
\* pool mutex, the reads hold the pool mutex alone, whenever a call is under
\* way some call can take a step, and under fair scheduling every call that
\* has started ends (it returns, or it unwinds and drops its guards).
C9_DeadlockFree ==
  /\ [](C9_LockOrder)
  /\ [](C9_NoDeadlock)
  /\ \A t \in Threads : Started(t) ~> ~Started(t)

\* a log call waits for the pool mutex while another log call holds both
C9_Witness ==
  \E t, u \in Threads :
    /\ pc[t] = "log_lock_pool"
    /\ u \in poolHeld /\ u \in counterHeld

\* --------------------------------------------------------------------- C10
\* C10: while a read holds the pool, no append is between its echo and its
\* return, the pool holds at most max_size entries, and pool and counter are
\* those left by a whole number of appends, all of which have returned.
C10_ReadsSeeWholeAppends ==
  \A t \in Threads : pc[t] = "rd_body" =>
    /\ \A u \in Threads : ~InLog(u)
    /\ Len(pool) <= max_size
    /\ pool = SeqPool
    /\ counter = SeqCounter
    /\ oks = Len(history)

\* a read holds the pool after an append while another append waits
C10_Witness ==
  \E t, u \in Threads :
    /\ pc[t] = "rd_body" /\ pc[u] = "log_lock_pool" /\ Len(history) >= 1

\* --------------------------------------------------------------------- C11
\* the k-th smallest position of a set of positions
NthOf(S, k) == CHOOSE i \in S : Cardinality({j \in S : j < i}) = k - 1

\* the entries of q at the positions S, in the order of q
Selected(q, S) == [k \in 1..Cardinality(S) |-> q[NthOf(S, k)]]

\* the positions lo..hi of q whose entry has a level at or below f
UpTo(q, lo, hi, f) == {i \in lo..hi : Rank(q[i][3]) <= Rank(f)}

Levels(q) == {q[i][3] : i \in 1..Len(q)}

OneOfEach(q) == Len(q) = 4 /\ Levels(q) = {"Error", "Warn", "Info", "Debug"}

\* C11: a get_log(filter) that returns a value returns exactly the retained
\* entries whose level is at or below filter in Silent < Error < Warn < Info
\* < Debug, in the order of the pool; get_log(Debug) returns the whole pool;
\* get_log(Warn) on a pool of one Error, one Warn, one Info and one Debug
\* entry returns the Error and the Warn entry and no other.
C11_GetLogFilters ==
  (ret.op = "get_log" /\ ret.kind = "Ok") =>
    /\ ret.val = Selected(pool, UpTo(pool, 1, Len(pool), ret.args[1]))
    /\ ret.args[1] = "Debug" => ret.val = pool
    /\ (ret.args[1] = "Warn" /\ OneOfEach(pool)) =>
         /\ Len(ret.val) = 2
         /\ Levels(ret.val) = {"Error", "Warn"}
         /\ \A k \in 1..2 : \E i \in 1..4 : ret.val[k] = pool[i]

\* get_log(Warn) has returned two entries of a pool with one entry of each
\* of Error, Warn, Info and Debug
C11_Witness ==
  /\ ret.op = "get_log" /\ ret.kind = "Ok" /\ ret.args = <<"Warn">>
  /\ OneOfEach(pool) /\ Len(ret.val) = 2

\* --------------------------------------------------------------------- C12
\* C12: every get_log(Silent) that returns a value returns the empty
\* sequence, whatever log calls the pool has accepted.
C12_SilentFilterIsEmpty ==
  (ret.op = "get_log" /\ ret.kind = "Ok" /\ ret.args = <<"Silent">>) => ret.val = <<>>

\* the positions of q whose entry has the level l
At(q, l) == {i \in 1..Len(q) : q[i][3] = l}

\* C12 (amended): get_log(Silent) returns exactly the retained entries
\* whose level is Silent, most recent first; log accepts Silent as the level
\* of an entry, so the result is empty exactly while no retained entry was
\* logged with Silent.
C12_SilentFilterReturnsSilent ==
  (ret.op = "get_log" /\ ret.kind = "Ok" /\ ret.args = <<"Silent">>) =>
    /\ ret.val = Selected(pool, At(pool, "Silent"))
    /\ ret.val = <<>> <=> "Silent" \notin Levels(pool)

\* get_log(Silent) has returned a Silent entry from a pool that also holds
\* an entry of another level
C12_Witness ==
  /\ ret.op = "get_log" /\ ret.kind = "Ok" /\ ret.args = <<"Silent">>
  /\ Len(ret.val) >= 1 /\ Len(ret.val) < Len(pool)

\* --------------------------------------------------------------------- C13
\* what a get_entry that got the lock has returned
C13_Result ==
  (ret.op = "get_entry" /\ "args" \in DOMAIN ret) =>
    /\ ret.args[1] < Len(pool) =>
         /\ ret.kind = "Ok"
         /\ ret.val = pool[ret.args[1] + 1]
         /\ ret.val = AllRecent[ret.args[1] + 1]
    /\ ret.args[1] >= Len(pool) =>
         /\ ret.kind = "Err"
         /\ ret.val = "index out of bounds"

\* get_entry changes nothing; a log call that returns Ok moves every entry
\* one position back, and the entry that has no position left is gone
C13_Step ==
  /\ ret'.op = "get_entry" =>
       /\ pool' = pool
       /\ counter' = counter
       /\ poolPoisoned' = poolPoisoned
  /\ (ret'.op = "log" /\ ret'.kind = "Ok") =>
       \A i \in 1..Len(pool) :
         IF i + 1 <= max_size
           THEN Len(pool') >= i + 1 /\ pool'[i + 1] = pool[i]
           ELSE \A j \in 1..Len(pool') : pool'[j] # pool[i]

\* C13: get_entry(index) returns the entry at the 0-based position index
\* from the most recent one (the (index + 1)-th most recent append) when
\* index < size, and the error "index out of bounds" when index >= size,
\* leaving the pool as it was; every log call that returns Ok moves each
\* retained entry one position back until it is evicted.
C13_GetEntryByPosition == [](C13_Result) /\ [][C13_Step]_vars

\* after an eviction, get_entry(1) has returned the append before the last
C13_Witness ==
  /\ ret.op = "get_entry" /\ ret.kind = "Ok" /\ ret.args = <<1>>
  /\ Len(history) > max_size
  /\ ret.val = history[Len(history) - 1]

\* --------------------------------------------------------------------- C14
\* the console lines that are the echo of the entry with the id k
EchoesOf(k) == {i \in 1..Len(console) : console[i].fmt = "echo" /\ console[i].id = k}

\* every entry pushed has been echoed once if its level is at or below the
\* threshold and never otherwise
C14_EchoedOnce ==
  \A k \in 1..Len(history) :
    Cardinality(EchoesOf(history[k][1])) =
      (IF Rank(history[k][3]) <= Rank(verbosity) THEN 1 ELSE 0)

\* what a log call that returns Ok has written and stored
C14_Step ==
  (ret'.op = "log" /\ ret'.kind = "Ok") =>
    /\ Len(history') = Len(history) + 1
    /\ Rank(history'[Len(history')][3]) <= Rank(verbosity) =>
         /\ Len(console') = Len(console) + 1
         /\ SubSeq(console', 1, Len(console)) = console
         /\ console'[Len(console')].fmt = "echo"
         /\ console'[Len(console')].msg = history'[Len(history')][2]
    /\ Rank(history'[Len(history')][3]) > Rank(verbosity) => console' = console
    /\ max_size >= 1 => pool'[1] = history'[Len(history')]
    /\ max_size = 0 => pool' = <<>>

\* C14: a log call with level L on a logger of threshold T that returns Ok
\* writes one line, the message, to the console if L <= T and nothing if
\* L > T, so that every entry has one echo or none; either way the entry is
\* at the front of the pool afterwards (on a pool of capacity 0 it is
\* evicted at once).
C14_EchoAtInsertion == [](C14_EchoedOnce) /\ [][C14_Step]_vars

\* init(Warn, ..), log(Error), log(Info): one line on the console, two
\* entries in the pool
C14_Witness ==
  /\ verbosity = "Warn" /\ ret.op = "log" /\ ret.kind = "Ok"
  /\ Len(history) = 2 /\ history[1][3] = "Error" /\ history[2][3] = "Info"
  /\ Len(console) = 1 /\ Len(pool) = 2

\* --------------------------------------------------------------------- C15
ErrorAndWarn(q) == Len(q) = 2 /\ Levels(q) = {"Error", "Warn"}

\* the k-th line a print call has added to the console shows the entry e
Shows(k, e) ==
  /\ console'[Len(console) + k].fmt = "plain"
  /\ console'[Len(console) + k].id = e[1]
  /\ console'[Len(console) + k].level = e[3]
  /\ console'[Len(console) + k].msg = e[2]

\* what a print_log_level(P) that returns Ok has written, and what
\* get_log(P) returns of the same pool
C15_Step ==
  (ret'.op = "print_log_level" /\ ret'.kind = "Ok") =>
    /\ pool' = pool
    /\ SubSeq(console', 1, Len(console)) = console
    /\ Len(console') = Len(console) + Cardinality(At(pool, ret'.args[1]))
    /\ \A k \in 1..Cardinality(At(pool, ret'.args[1])) :
         Shows(k, pool[NthOf(At(pool, ret'.args[1]), k)])
    /\ get_log(pool, ret'.args[1]) =
         Selected(pool, UpTo(pool, 1, Len(pool), ret'.args[1]))
    /\ (ret'.args[1] = "Warn" /\ ErrorAndWarn(pool)) =>
         /\ Len(console') = Len(console) + 1
         /\ console'[Len(console')].level = "Warn"
         /\ Len(get_log(pool, "Warn")) = 2

\* C15: print_log_level(P) writes one line for each retained entry whose
\* level equals P and for no other, most recent first, while get_log(P) of
\* the same pool is the retained entries whose level is at or below P; on a
\* pool of one Error and one Warn entry print_log_level(Warn) writes the
\* Warn entry alone and get_log(Warn) has both.
C15_ExactMatchVersusThreshold == [][C15_Step]_vars

\* print_log_level(Warn) has written one line, of the Warn entry, on a pool
\* of one Error and one Warn entry
C15_Witness ==
  /\ ret.op = "print_log_level" /\ ret.kind = "Ok" /\ ret.args = <<"Warn">>
  /\ ErrorAndWarn(pool)
  /\ Cardinality({i \in 1..Len(console) : console[i].fmt = "plain"}) = 1
  /\ console[Len(console)].fmt = "plain" /\ console[Len(console)].level = "Warn"

\* --------------------------------------------------------------------- C16
\* C16: on a pool of capacity 0, get_size returns 0, get_log and
\* get_entries return the empty sequence and get_entry no entry, whatever
\* was appended; every log call ends by returning (an error only if a lock
\* was poisoned), the k-th append since the creation of the pool has the id
\* k - 1, and the counter is the number of log calls that returned Ok.
C16_CapacityZero ==
  max_size = 0 =>
    /\ (ret.op = "get_size" /\ ret.kind = "Ok") => ret.val = 0
    /\ (ret.op \in {"get_log", "get_entries"} /\ ret.kind = "Ok") => ret.val = <<>>
    /\ ret.op = "get_entry" => ret.kind = "Err"
    /\ ret.op = "log" => ret.kind \in {"Ok", "Err"}
    /\ (ret.op = "log" /\ ret.kind = "Err") => Poisoned
    /\ \A k \in 1..Len(history) : history[k][1] = NatAdd(base, k - 1)
    /\ ((\A t \in Threads : ~InLog(t)) /\ ~Poisoned) => counter = NatAdd(base, oks)

\* --------------------------------------------------------------------- C17
\* C17: a get_entries(start, end, filter) that returns a value was called
\* with start <= end <= size and returns exactly the entries at the
\* positions start .. end - 1 (0-based, most recent first) whose level is at
\* or below filter, in the order of the pool; get_entries(0, size, filter)
\* returns what get_log(filter) returns of the same pool.
C17_GetEntriesRange ==
  (ret.op = "get_entries" /\ ret.kind = "Ok") =>
    /\ ret.args[1] <= ret.args[2] /\ ret.args[2] <= Len(pool)
    /\ ret.val = Selected(pool, UpTo(pool, ret.args[1] + 1, ret.args[2], ret.args[3]))
    /\ (ret.args[1] = 0 /\ ret.args[2] = Len(pool)) =>
         /\ ret.val = get_log(pool, ret.args[3])
         /\ ret.val = Selected(pool, UpTo(pool, 1, Len(pool), ret.args[3]))

\* get_entries(1, 3, Warn) has returned one of the two entries of its range
C17_Witness ==
  /\ ret.op = "get_entries" /\ ret.kind = "Ok" /\ ret.args = <<1, 3, "Warn">>
  /\ Len(pool) = 3 /\ Len(ret.val) = 1

\* --------------------------------------------------------------------- C18
\* C18: once a get_log(filter) has returned a sequence, and until the next
\* append, whatever reads are called in between, every get_log returns a
\* sequence, and a get_log with the same filter returns the same sequence.
C18_RereadsAgree ==
  (seen_log.op = "get_log" /\ ret.op = "get_log") =>
    /\ ret.kind = "Ok"
    /\ ret.args = seen_log.args => ret.val = seen_log.val

\* the part that holds: two get_log calls that both return a sequence, with
\* the same filter and no append in between, return the same sequence
C18_ValuesAgree ==
  (seen_log.op = "get_log" /\ ret.op = "get_log" /\ ret.kind = "Ok"
     /\ ret.args = seen_log.args) => ret.val = seen_log.val

\* --------------------------------------------------------------------- C19
\* C19: whenever no append is under way on a pool whose counter has not
\* wrapped, the entry at the 0-based position i has the id counter - 1 - i
\* (so the ids are consecutive and decrease from the front, and the most
\* recent one is counter - 1), and a get_entry(i) that has returned an
\* entry has returned the id counter - 1 - i.
C19_ContiguousIds ==
  ((\A t \in Threads : ~InLog(t)) /\ ~NatLess(counter, base)) =>
    /\ \A i \in 1..Len(pool) : pool[i][1] = NatSub(counter, i)
    /\ (ret.op = "get_entry" /\ ret.kind = "Ok") =>
         ret.val[1] = NatSub(counter, ret.args[1] + 1)

\* --------------------------------------------------------------------- C20
\* the console lines that are echoes
EchoLines == {i \in 1..Len(console) : console[i].fmt = "echo"}

\* C20: the echoes on the console are in increasing order of id; every
\* entry that has been pushed, and so can be seen by a read, and whose level
\* is at or below the threshold has its echo on the console; and the echo
\* of the entry with the id k + 1 comes after the echo of the entry with the
\* id k, if that entry is echoed at all.
C20_EchoOrder ==
  /\ \A i, j \in EchoLines : i < j => NatLess(console[i].id, console[j].id)
  /\ \A k \in 1..Len(history) :
       Rank(history[k][3]) <= Rank(verbosity) => EchoesOf(history[k][1]) # {}
  /\ \A j \in EchoLines : \A k \in 1..Len(history) :
       (NatAdd(history[k][1], 1) = console[j].id /\ Rank(history[k][3]) <= Rank(verbosity)) =>
         \E i \in EchoLines : i < j /\ console[i].id = history[k][1]

====
